---- MODULE Spec2Model ----
(***************************************************************************)
(* The LevelDB wrapper of search-indexer (package leveldb): a DB guards a  *)
(* goleveldb handle with one sync.RWMutex, keeps a "current" snapshot and  *)
(* a reference-counted registry of live snapshots (activeSnaps), and hands *)
(* out leases (Snap objects) with a release closure.                       *)
(*                                                                         *)
(* Every method of DB runs between mutex.Lock/RLock and the deferred       *)
(* Unlock/RUnlock.  A call is modelled in two steps: the acquisition of    *)
(* the mutex (Lock, RLock) and the body together with the deferred unlock. *)
(***************************************************************************)
EXTENDS Integers, Sequences, FiniteSets, TLC

\* ------------------------------------------------------------- bounds
MaxSnaps == 3      \* engine snapshots created during one run
MaxLeases == 2     \* Snap objects handed out by GetSnapshot during one run
MaxOps == 3        \* committed write operations recorded in the history
MaxBatch == 2      \* operations pending in the Batch

\* ------------------------------------------------------------- domains
Procs == {"p1", "p2"}
Keys == {<<1>>, <<1, 2>>}
Values == {1, 2}
Prefixes == {<< >>, <<1>>, <<1, 2>>, <<2>>}
ScanKeys == {<<1>>, <<1, 1>>, <<1, 2>>, <<2>>}
Limits == {-1, 0, 1, 2}

Nil == 0           \* the nil *leveldb.Snapshot / nil *Snap
NoValue == 0       \* Get's (nil, nil): key not found

WriteOps == {"Close", "TakeSnapshot", "GetSnapshot", "Release", "Put", "Delete", "Commit"}
ReadOps == {"IsClosed", "Get", "Scan"}

ErrNone == "nil"
ErrClosed == "database is closed"
ErrActive == "cannot close database with active snapshots"
ErrEngineClose == "failed to close leveldb"
ErrSnapshot == "failed to create snapshot"
ErrPut == "failed to put data"
ErrGet == "failed to get data"
ErrDelete == "failed to delete data"
ErrScan == "scan failed"
ErrOpen == "failed to open leveldb"

VARIABLES
    phase,        \* "new": before OpenDB; "open": OpenDB returned the DB; "failed": OpenDB returned an error
    db,           \* d.db: "handle" or "nil"
    closed,       \* d.closed
    snap,         \* d.snap: the current snapshot handle, or Nil
    activeSnaps,  \* d.activeSnaps: a function from the handles present to their counts
    mutex,        \* d.mutex: [w |-> a writer holds it, r |-> number of readers holding it]
    created,      \* engine: number of snapshots created so far (handles 1..created)
    snapKv,       \* engine: per handle, the contents the snapshot was taken of
    released,     \* engine: per handle, how often Snapshot.Release() was invoked
    engineCloses, \* engine: how often leveldb.DB.Close() was invoked
    kv,           \* engine: the live contents, Keys -> Values or NoValue
    leases,       \* the Snap objects issued by GetSnapshot, in order of issue
    noopIssued,   \* GetSnapshot returned (nil, func() {}) at least once
    batch,        \* the pending operations of the Batch
    pc,           \* per caller: "idle", or the method whose critical section it is in
    ret,          \* the most recently completed call: its method, arguments and results
    log           \* history: the committed write operations, in commit order

storeVars == <<db, closed, snap, activeSnaps>>
engineVars == <<created, snapKv, released, engineCloses, kv>>
vars == <<phase, db, closed, snap, activeSnaps, mutex, created, snapKv, released,
          engineCloses, kv, leases, noopIssued, batch, pc, ret, log>>

NoRet == [op |-> "none", arg |-> Nil, err |-> ErrNone, val |-> Nil]
Ret(o, a, e, v) == [op |-> o, arg |-> a, err |-> e, val |-> v]

\* ------------------------------------------------------------- Go maps
\* m[k] of a Go map: the zero value when k is absent
MapGet(m, k) == IF k \in DOMAIN m THEN m[k] ELSE 0
\* m[k] = v
MapSet(m, k, v) == [x \in DOMAIN m \cup {k} |-> IF x = k THEN v ELSE m[x]]
\* delete(m, k)
MapDelete(m, k) == [x \in DOMAIN m \ {k} |-> m[x]]

EmptyMap == [x \in {} |-> 0]

\* ------------------------------------------------------------- registry
\* releaseSnapInternal without the count test: every call releases the snapshot
releaseSnapInternal_NoCount(active, rel, s) ==
    IF s = Nil
    THEN [active |-> active, released |-> rel]
    ELSE [active |-> MapDelete(active, s),
          released |-> [rel EXCEPT ![s] = @ + 1]]

\* releaseSnapInternal with count >= 1 for count > 1: the last reference is decremented
\* to zero and the snapshot is kept
releaseSnapInternal_OffByOne(active, rel, s) ==
    IF s = Nil
    THEN [active |-> active, released |-> rel]
    ELSE IF s \in DOMAIN active /\ active[s] >= 1
         THEN [active |-> [active EXCEPT ![s] = @ - 1], released |-> rel]
         ELSE [active |-> MapDelete(active, s),
               released |-> [rel EXCEPT ![s] = @ + 1]]

\* releaseSnapInternal(s): the registry and the engine's release counts after it
releaseSnapInternal(active, rel, s) ==
    IF s = Nil
    THEN [active |-> active, released |-> rel]
    ELSE IF s \in DOMAIN active /\ active[s] > 1
         THEN [active |-> [active EXCEPT ![s] = @ - 1], released |-> rel]
         ELSE [active |-> MapDelete(active, s),
               released |-> [rel EXCEPT ![s] = @ + 1]]

Init ==
    /\ phase = "new"
    /\ db = "nil"
    /\ closed = FALSE
    /\ snap = Nil
    /\ activeSnaps = EmptyMap
    /\ mutex = [w |-> FALSE, r |-> 0]
    /\ created = 0
    /\ snapKv = << >>
    /\ released = [s \in 1..MaxSnaps |-> 0]
    /\ engineCloses = 0
    /\ kv = [k \in Keys |-> NoValue]
    /\ leases = << >>
    /\ noopIssued = FALSE
    /\ batch = << >>
    /\ pc = [p \in Procs |-> "idle"]
    /\ ret = NoRet
    /\ log = << >>

\* ------------------------------------------------------------- mutex
\* a writing method taking the mutex as a reader would: it waits for a writer only
Lock_AsReader(p, o) ==
    /\ phase = "open"
    /\ pc[p] = "idle"
    /\ o \in WriteOps
    /\ o = "Release" => Len(leases) > 0
    /\ o = "GetSnapshot" => closed \/ Len(leases) < MaxLeases
    /\ ~mutex.w
    /\ mutex' = [mutex EXCEPT !.w = TRUE]
    /\ pc' = [pc EXCEPT ![p] = o]
    /\ ret' = NoRet
    /\ UNCHANGED <<phase, storeVars, engineVars, leases, noopIssued, batch, log>>

\* d.mutex.Lock() at the head of a writing method. A release closure exists once a
\* lease was issued; MaxLeases caps the leases at the call that would issue one more.
Lock(p, o) ==
    /\ phase = "open"
    /\ pc[p] = "idle"
    /\ o \in WriteOps
    /\ o = "Release" => Len(leases) > 0
    /\ o = "GetSnapshot" => closed \/ Len(leases) < MaxLeases
    /\ ~mutex.w /\ mutex.r = 0
    /\ mutex' = [mutex EXCEPT !.w = TRUE]
    /\ pc' = [pc EXCEPT ![p] = o]
    /\ ret' = NoRet
    /\ UNCHANGED <<phase, storeVars, engineVars, leases, noopIssued, batch, log>>

\* d.mutex.RLock() at the head of a reading method
RLock(p, o) ==
    /\ phase = "open"
    /\ pc[p] = "idle"
    /\ o \in ReadOps
    /\ ~mutex.w
    /\ mutex' = [mutex EXCEPT !.r = @ + 1]
    /\ pc' = [pc EXCEPT ![p] = o]
    /\ ret' = NoRet
    /\ UNCHANGED <<phase, storeVars, engineVars, leases, noopIssued, batch, log>>

\* the deferred d.mutex.Unlock() / d.mutex.RUnlock(), with the return to the caller
Unlock(p) ==
    /\ mutex' = [mutex EXCEPT !.w = FALSE]
    /\ pc' = [pc EXCEPT ![p] = "idle"]

RUnlock(p) ==
    /\ mutex' = [mutex EXCEPT !.r = @ - 1]
    /\ pc' = [pc EXCEPT ![p] = "idle"]

\* ------------------------------------------------------------- engine
\* leveldb.DB.GetSnapshot: a handle never returned before
EngineNewSnapshot == created + 1

\* leveldb.DB.Put / Delete on the live contents
EnginePut(m, k, v) == [m EXCEPT ![k] = v]
EngineDelete(m, k) == [m EXCEPT ![k] = NoValue]

\* leveldb.DB.Write(batch): the operations of the batch, applied in order, as one write
RECURSIVE EngineWrite(_, _)
EngineWrite(m, ops) ==
    IF ops = << >>
    THEN m
    ELSE EngineWrite(IF Head(ops).t = "put"
                     THEN EnginePut(m, Head(ops).k, Head(ops).v)
                     ELSE EngineDelete(m, Head(ops).k),
                     Tail(ops))

\* bytes.Compare(a, b) < 0
RECURSIVE KeyLess(_, _)
KeyLess(a, b) ==
    IF a = << >> THEN b # << >>
    ELSE IF b = << >> THEN FALSE
    ELSE IF Head(a) # Head(b) THEN Head(a) < Head(b)
    ELSE KeyLess(Tail(a), Tail(b))

\* util.BytesPrefix(prefix): the keys that start with prefix
HasPrefix(k, prefix) ==
    /\ Len(prefix) <= Len(k)
    /\ SubSeq(k, 1, Len(prefix)) = prefix

\* the iterator's keys: the live keys with the prefix, ascending
RECURSIVE SortedKeys(_)
SortedKeys(S) ==
    IF S = {} THEN << >>
    ELSE LET least == CHOOSE k \in S : \A x \in S \ {k} : KeyLess(k, x)
         IN <<least>> \o SortedKeys(S \ {least})

IterKeys(m, prefix) == SortedKeys({k \in DOMAIN m : m[k] # NoValue /\ HasPrefix(k, prefix)})

\* the loop of Scan with len(results) > limit for len(results) >= limit
RECURSIVE ScanLoop_OffByOne(_, _, _, _)
ScanLoop_OffByOne(m, iter, results, limit) ==
    IF iter = << >> THEN results
    ELSE IF limit > 0 /\ Len(results) > limit THEN results
    ELSE ScanLoop_OffByOne(m, Tail(iter), Append(results, <<Head(iter), m[Head(iter)]>>), limit)

\* the loop of Scan over the iterator
RECURSIVE ScanLoop(_, _, _, _)
ScanLoop(m, iter, results, limit) ==
    IF iter = << >> THEN results
    ELSE IF limit > 0 /\ Len(results) >= limit THEN results
    ELSE ScanLoop(m, Tail(iter), Append(results, <<Head(iter), m[Head(iter)]>>), limit)

\* ------------------------------------------------------------- methods
\* TakeSnapshotApply releasing the current snapshot before the engine is asked for the
\* new one: a failed creation leaves the old snapshot released
TakeSnapshotApply_ReleaseFirst(ok) ==
    LET new == EngineNewSnapshot
        r == releaseSnapInternal(activeSnaps, released, snap)
    IN /\ released' = r.released
       /\ IF ok
          THEN /\ created' = new
               /\ snapKv' = Append(snapKv, kv)
               /\ snap' = new
               /\ activeSnaps' = MapSet(r.active, new, 1)
          ELSE /\ activeSnaps' = r.active
               /\ UNCHANGED <<snap, created, snapKv>>

\* TakeSnapshotApply that forgets to release the previous current snapshot
TakeSnapshotApply_NoRelease(ok) ==
    IF ~ok
    THEN UNCHANGED <<snap, activeSnaps, created, snapKv, released>>
    ELSE LET new == EngineNewSnapshot
         IN /\ created' = new
            /\ snapKv' = Append(snapKv, kv)
            /\ snap' = new
            /\ activeSnaps' = MapSet(activeSnaps, new, 1)
            /\ UNCHANGED released

\* the body of TakeSnapshot past the closed check; ok: the engine created the snapshot
TakeSnapshotApply(ok) ==
    IF ~ok
    THEN UNCHANGED <<snap, activeSnaps, created, snapKv, released>>
    ELSE LET new == EngineNewSnapshot
             r == releaseSnapInternal(activeSnaps, released, snap)
         IN /\ created' = new
            /\ snapKv' = Append(snapKv, kv)
            /\ snap' = new
            /\ activeSnaps' = MapSet(r.active, new, 1)
            /\ released' = r.released

OpenDB ==
    /\ phase = "new"
    /\ \E openOk, snapOk \in BOOLEAN :
         IF ~openOk
         THEN /\ phase' = "failed"
              /\ ret' = Ret("OpenDB", Nil, ErrOpen, Nil)
              /\ UNCHANGED <<db, snap, activeSnaps, created, snapKv, released, engineCloses>>
         ELSE /\ db' = "handle"
              /\ TakeSnapshotApply(snapOk)
              /\ IF snapOk
                 THEN /\ phase' = "open"
                      /\ ret' = Ret("OpenDB", Nil, ErrNone, Nil)
                      /\ UNCHANGED engineCloses
                 ELSE /\ phase' = "failed"
                      /\ ret' = Ret("OpenDB", Nil, ErrSnapshot, Nil)
                      /\ engineCloses' = engineCloses + 1
    /\ UNCHANGED <<closed, mutex, kv, leases, noopIssued, batch, pc, log>>

\* Close testing only the current snapshot's count, not the size of the registry
Close_CurrentOnly(p) ==
    /\ pc[p] = "Close"
    /\ Unlock(p)
    /\ IF closed
       THEN /\ ret' = Ret("Close", Nil, ErrClosed, Nil)
            /\ UNCHANGED <<storeVars, released, engineCloses>>
       ELSE IF MapGet(activeSnaps, snap) > 1
       THEN /\ ret' = Ret("Close", Nil, ErrActive, Nil)
            /\ UNCHANGED <<storeVars, released, engineCloses>>
       ELSE LET r == releaseSnapInternal(activeSnaps, released, snap)
            IN /\ activeSnaps' = r.active
               /\ released' = r.released
               /\ snap' = Nil
               /\ closed' = TRUE
               /\ IF db # "nil"
                  THEN /\ engineCloses' = engineCloses + 1
                       /\ \E ok \in BOOLEAN :
                            IF ok
                            THEN /\ db' = "nil"
                                 /\ ret' = Ret("Close", Nil, ErrNone, Nil)
                            ELSE /\ db' = db
                                 /\ ret' = Ret("Close", Nil, ErrEngineClose, Nil)
                  ELSE /\ ret' = Ret("Close", Nil, ErrNone, Nil)
                       /\ UNCHANGED <<db, engineCloses>>
    /\ UNCHANGED <<phase, created, snapKv, kv, leases, noopIssued, batch, log>>

\* Close without d.releaseSnapInternal(d.snap): the current snapshot is dropped
\* unreleased
Close_NoRelease(p) ==
    /\ pc[p] = "Close"
    /\ Unlock(p)
    /\ IF closed
       THEN /\ ret' = Ret("Close", Nil, ErrClosed, Nil)
            /\ UNCHANGED <<storeVars, released, engineCloses>>
       ELSE IF Cardinality(DOMAIN activeSnaps) > 1 \/ MapGet(activeSnaps, snap) > 1
       THEN /\ ret' = Ret("Close", Nil, ErrActive, Nil)
            /\ UNCHANGED <<storeVars, released, engineCloses>>
       ELSE /\ activeSnaps' = MapDelete(activeSnaps, snap)
            /\ released' = released
            /\ snap' = Nil
            /\ closed' = TRUE
            /\ IF db # "nil"
               THEN /\ engineCloses' = engineCloses + 1
                    /\ \E ok \in BOOLEAN :
                         IF ok
                         THEN /\ db' = "nil"
                              /\ ret' = Ret("Close", Nil, ErrNone, Nil)
                         ELSE /\ db' = db
                              /\ ret' = Ret("Close", Nil, ErrEngineClose, Nil)
               ELSE /\ ret' = Ret("Close", Nil, ErrNone, Nil)
                    /\ UNCHANGED <<db, engineCloses>>
    /\ UNCHANGED <<phase, created, snapKv, kv, leases, noopIssued, batch, log>>

\* Close setting d.closed only after the engine closed: a failed engine close leaves
\* the DB open with no current snapshot
Close_ClosedAfterEngine(p) ==
    /\ pc[p] = "Close"
    /\ Unlock(p)
    /\ IF closed
       THEN /\ ret' = Ret("Close", Nil, ErrClosed, Nil)
            /\ UNCHANGED <<storeVars, released, engineCloses>>
       ELSE IF Cardinality(DOMAIN activeSnaps) > 1 \/ MapGet(activeSnaps, snap) > 1
       THEN /\ ret' = Ret("Close", Nil, ErrActive, Nil)
            /\ UNCHANGED <<storeVars, released, engineCloses>>
       ELSE LET r == releaseSnapInternal(activeSnaps, released, snap)
            IN /\ activeSnaps' = r.active
               /\ released' = r.released
               /\ snap' = Nil
               /\ IF db # "nil"
                  THEN /\ engineCloses' = engineCloses + 1
                       /\ \E ok \in BOOLEAN :
                            IF ok
                            THEN /\ db' = "nil"
                                 /\ closed' = TRUE
                                 /\ ret' = Ret("Close", Nil, ErrNone, Nil)
                            ELSE /\ db' = db
                                 /\ closed' = closed
                                 /\ ret' = Ret("Close", Nil, ErrEngineClose, Nil)
                  ELSE /\ ret' = Ret("Close", Nil, ErrNone, Nil)
                       /\ closed' = TRUE
                       /\ UNCHANGED <<db, engineCloses>>
    /\ UNCHANGED <<phase, created, snapKv, kv, leases, noopIssued, batch, log>>

\* Close waiting for the outstanding leases, inside its critical section, and not
\* refusing
Close_WaitsForLeases(p) ==
    /\ pc[p] = "Close"
    /\ Unlock(p)
    /\ IF closed
       THEN /\ ret' = Ret("Close", Nil, ErrClosed, Nil)
            /\ UNCHANGED <<storeVars, released, engineCloses>>
       ELSE /\ ~(Cardinality(DOMAIN activeSnaps) > 1 \/ MapGet(activeSnaps, snap) > 1)
            /\ LET r == releaseSnapInternal(activeSnaps, released, snap)
               IN /\ activeSnaps' = r.active
                  /\ released' = r.released
                  /\ snap' = Nil
                  /\ closed' = TRUE
                  /\ IF db # "nil"
                     THEN /\ engineCloses' = engineCloses + 1
                          /\ \E ok \in BOOLEAN :
                               IF ok
                               THEN /\ db' = "nil"
                                    /\ ret' = Ret("Close", Nil, ErrNone, Nil)
                               ELSE /\ db' = db
                                    /\ ret' = Ret("Close", Nil, ErrEngineClose, Nil)
                     ELSE /\ ret' = Ret("Close", Nil, ErrNone, Nil)
                          /\ UNCHANGED <<db, engineCloses>>
    /\ UNCHANGED <<phase, created, snapKv, kv, leases, noopIssued, batch, log>>

Close(p) ==
    /\ pc[p] = "Close"
    /\ Unlock(p)
    /\ IF closed
       THEN /\ ret' = Ret("Close", Nil, ErrClosed, Nil)
            /\ UNCHANGED <<storeVars, released, engineCloses>>
       ELSE IF Cardinality(DOMAIN activeSnaps) > 1 \/ MapGet(activeSnaps, snap) > 1
       THEN /\ ret' = Ret("Close", Nil, ErrActive, Nil)
            /\ UNCHANGED <<storeVars, released, engineCloses>>
       ELSE LET r == releaseSnapInternal(activeSnaps, released, snap)
            IN /\ activeSnaps' = r.active
               /\ released' = r.released
               /\ snap' = Nil
               /\ closed' = TRUE
               /\ IF db # "nil"
                  THEN /\ engineCloses' = engineCloses + 1
                       /\ \E ok \in BOOLEAN :
                            IF ok
                            THEN /\ db' = "nil"
                                 /\ ret' = Ret("Close", Nil, ErrNone, Nil)
                            ELSE /\ db' = db
                                 /\ ret' = Ret("Close", Nil, ErrEngineClose, Nil)
                  ELSE /\ ret' = Ret("Close", Nil, ErrNone, Nil)
                       /\ UNCHANGED <<db, engineCloses>>
    /\ UNCHANGED <<phase, created, snapKv, kv, leases, noopIssued, batch, log>>

IsClosed(p) ==
    /\ pc[p] = "IsClosed"
    /\ RUnlock(p)
    /\ ret' = Ret("IsClosed", Nil, ErrNone, closed)
    /\ UNCHANGED <<phase, storeVars, engineVars, leases, noopIssued, batch, log>>

\* TakeSnapshot without the closed check
TakeSnapshot_NoClosedCheck(p) ==
    /\ pc[p] = "TakeSnapshot"
    /\ Unlock(p)
    /\ \E ok \in BOOLEAN :
         /\ ok => created < MaxSnaps
         /\ TakeSnapshotApply(ok)
         /\ ret' = Ret("TakeSnapshot", Nil, IF ok THEN ErrNone ELSE ErrSnapshot, Nil)
    /\ UNCHANGED <<phase, db, closed, engineCloses, kv, leases, noopIssued, batch, log>>

TakeSnapshot(p) ==
    /\ pc[p] = "TakeSnapshot"
    /\ Unlock(p)
    /\ IF closed
       THEN /\ ret' = Ret("TakeSnapshot", Nil, ErrClosed, Nil)
            /\ UNCHANGED <<snap, activeSnaps, created, snapKv, released>>
       ELSE \E ok \in BOOLEAN :
              /\ ok => created < MaxSnaps
              /\ TakeSnapshotApply(ok)
              /\ ret' = Ret("TakeSnapshot", Nil, IF ok THEN ErrNone ELSE ErrSnapshot, Nil)
    /\ UNCHANGED <<phase, db, closed, engineCloses, kv, leases, noopIssued, batch, log>>

\* the Snap object built by GetSnapshot. History: bound is the snapshot it was issued
\* for, relCalls counts the calls of its release closure (0, 1, or 2 for "more than once")
NewSnap(s) == [snap |-> s, bound |-> s, relCalls |-> 0]

Called(n) == IF n = 0 THEN 1 ELSE 2

\* GetSnapshot without d.activeSnaps[d.snap]++: the lease is handed out uncounted
GetSnapshot_NoIncrement(p) ==
    /\ pc[p] = "GetSnapshot"
    /\ Unlock(p)
    /\ IF closed
       THEN /\ ret' = Ret("GetSnapshot", Nil, ErrNone, Nil)
            /\ noopIssued' = TRUE
            /\ UNCHANGED <<activeSnaps, leases>>
       ELSE /\ activeSnaps' = activeSnaps
            /\ leases' = Append(leases, NewSnap(snap))
            /\ ret' = Ret("GetSnapshot", Nil, ErrNone, Len(leases) + 1)
            /\ UNCHANGED noopIssued
    /\ UNCHANGED <<phase, db, closed, snap, engineVars, batch, log>>

GetSnapshot(p) ==
    /\ pc[p] = "GetSnapshot"
    /\ Unlock(p)
    /\ IF closed
       THEN /\ ret' = Ret("GetSnapshot", Nil, ErrNone, Nil)
            /\ noopIssued' = TRUE
            /\ UNCHANGED <<activeSnaps, leases>>
       ELSE /\ activeSnaps' = MapSet(activeSnaps, snap, MapGet(activeSnaps, snap) + 1)
            /\ leases' = Append(leases, NewSnap(snap))
            /\ ret' = Ret("GetSnapshot", Nil, ErrNone, Len(leases) + 1)
            /\ UNCHANGED noopIssued
    /\ UNCHANGED <<phase, db, closed, snap, engineVars, batch, log>>

\* the release closure without snap.snap = nil: every call releases again
Release_NoClear(p, i) ==
    /\ pc[p] = "Release"
    /\ i \in 1..Len(leases)
    /\ Unlock(p)
    /\ LET r == releaseSnapInternal(activeSnaps, released, leases[i].snap)
       IN /\ activeSnaps' = r.active
          /\ released' = r.released
    /\ leases' = [leases EXCEPT ![i] = [@ EXCEPT !.relCalls = Called(@)]]
    /\ ret' = Ret("Release", i, ErrNone, Nil)
    /\ UNCHANGED <<phase, db, closed, snap, created, snapKv, engineCloses, kv, noopIssued, batch, log>>

\* the release closure releasing d.snap, the current snapshot, for snap.snap
Release_Current(p, i) ==
    /\ pc[p] = "Release"
    /\ i \in 1..Len(leases)
    /\ Unlock(p)
    /\ LET r == releaseSnapInternal(activeSnaps, released,
                                    IF leases[i].snap = Nil THEN Nil ELSE snap)
       IN /\ activeSnaps' = r.active
          /\ released' = r.released
    /\ leases' = [leases EXCEPT ![i] = [@ EXCEPT !.snap = Nil, !.relCalls = Called(@)]]
    /\ ret' = Ret("Release", i, ErrNone, Nil)
    /\ UNCHANGED <<phase, db, closed, snap, created, snapKv, engineCloses, kv, noopIssued, batch, log>>

\* the release closure GetSnapshot returns with lease i
Release(p, i) ==
    /\ pc[p] = "Release"
    /\ i \in 1..Len(leases)
    /\ Unlock(p)
    /\ LET r == releaseSnapInternal(activeSnaps, released, leases[i].snap)
       IN /\ activeSnaps' = r.active
          /\ released' = r.released
    /\ leases' = [leases EXCEPT ![i] = [@ EXCEPT !.snap = Nil, !.relCalls = Called(@)]]
    /\ ret' = Ret("Release", i, ErrNone, Nil)
    /\ UNCHANGED <<phase, db, closed, snap, created, snapKv, engineCloses, kv, noopIssued, batch, log>>

\* the func() {} GetSnapshot returns on a closed DB: no lock, no effect
NoopRelease(p) ==
    /\ noopIssued
    /\ pc[p] = "idle"
    /\ ret' = Ret("NoopRelease", Nil, ErrNone, Nil)
    /\ UNCHANGED <<phase, storeVars, mutex, engineVars, leases, noopIssued, batch, pc, log>>

Put(p, k, v) ==
    /\ pc[p] = "Put"
    /\ Unlock(p)
    /\ IF closed
       THEN /\ ret' = Ret("Put", <<k, v>>, ErrClosed, Nil)
            /\ UNCHANGED kv
       ELSE \E ok \in BOOLEAN :
              IF ok
              THEN /\ kv' = EnginePut(kv, k, v)
                   /\ ret' = Ret("Put", <<k, v>>, ErrNone, Nil)
              ELSE /\ ret' = Ret("Put", <<k, v>>, ErrPut, Nil)
                   /\ UNCHANGED kv
    /\ UNCHANGED <<phase, storeVars, created, snapKv, released, engineCloses, leases, noopIssued, batch>>

\* Get reading d.snap, the current snapshot, for the live engine
Get_FromSnapshot(p, k) ==
    /\ pc[p] = "Get"
    /\ RUnlock(p)
    /\ IF closed
       THEN ret' = Ret("Get", k, ErrClosed, Nil)
       ELSE \E ok \in BOOLEAN :
              IF ok
              THEN ret' = Ret("Get", k, ErrNone, snapKv[snap][k])
              ELSE ret' = Ret("Get", k, ErrGet, Nil)
    /\ UNCHANGED <<phase, storeVars, engineVars, leases, noopIssued, batch, log>>

Get(p, k) ==
    /\ pc[p] = "Get"
    /\ RUnlock(p)
    /\ IF closed
       THEN ret' = Ret("Get", k, ErrClosed, Nil)
       ELSE \E ok \in BOOLEAN :
              IF ok
              THEN ret' = Ret("Get", k, ErrNone, kv[k])
              ELSE ret' = Ret("Get", k, ErrGet, Nil)
    /\ UNCHANGED <<phase, storeVars, engineVars, leases, noopIssued, batch, log>>

\* Delete returning nil without the engine call
Delete_NoEngine(p, k) ==
    /\ pc[p] = "Delete"
    /\ Unlock(p)
    /\ ret' = Ret("Delete", k, IF closed THEN ErrClosed ELSE ErrNone, Nil)
    /\ UNCHANGED kv
    /\ UNCHANGED <<phase, storeVars, created, snapKv, released, engineCloses, leases, noopIssued, batch>>

Delete(p, k) ==
    /\ pc[p] = "Delete"
    /\ Unlock(p)
    /\ IF closed
       THEN /\ ret' = Ret("Delete", k, ErrClosed, Nil)
            /\ UNCHANGED kv
       ELSE \E ok \in BOOLEAN :
              IF ok
              THEN /\ kv' = EngineDelete(kv, k)
                   /\ ret' = Ret("Delete", k, ErrNone, Nil)
              ELSE /\ ret' = Ret("Delete", k, ErrDelete, Nil)
                   /\ UNCHANGED kv
    /\ UNCHANGED <<phase, storeVars, created, snapKv, released, engineCloses, leases, noopIssued, batch>>

Scan(p, prefix, limit) ==
    /\ pc[p] = "Scan"
    /\ RUnlock(p)
    /\ IF closed
       THEN ret' = Ret("Scan", <<prefix, limit>>, ErrClosed, << >>)
       ELSE \E ok \in BOOLEAN :
              IF ok
              THEN ret' = Ret("Scan", <<prefix, limit>>, ErrNone,
                              ScanLoop(kv, IterKeys(kv, prefix), << >>, limit))
              ELSE ret' = Ret("Scan", <<prefix, limit>>, ErrScan, << >>)
    /\ UNCHANGED <<phase, storeVars, engineVars, leases, noopIssued, batch, log>>

\* ------------------------------------------------------------- Batch
BatchOp(t, k, v) == [t |-> t, k |-> k, v |-> v]
Committing == \E p \in Procs : pc[p] = "Commit"

\* Batch.Put / Batch.Delete: append to the pending sequence, no lock, no engine call
BatchPut(k, v) ==
    /\ phase = "open"
    /\ ~Committing
    /\ Len(batch) < MaxBatch
    /\ Len(log) + Len(batch) < MaxOps
    /\ batch' = Append(batch, BatchOp("put", k, v))
    /\ ret' = NoRet
    /\ UNCHANGED <<phase, storeVars, mutex, engineVars, leases, noopIssued, pc, log>>

BatchDelete(k) ==
    /\ phase = "open"
    /\ ~Committing
    /\ Len(batch) < MaxBatch
    /\ Len(log) + Len(batch) < MaxOps
    /\ batch' = Append(batch, BatchOp("del", k, NoValue))
    /\ ret' = NoRet
    /\ UNCHANGED <<phase, storeVars, mutex, engineVars, leases, noopIssued, pc, log>>

\* Commit writing the operations one by one: a failure after the first leaves it applied
Commit_PerOp(p) ==
    /\ pc[p] = "Commit"
    /\ Unlock(p)
    /\ IF closed
       THEN /\ ret' = Ret("Commit", Len(batch), ErrClosed, Nil)
            /\ UNCHANGED <<kv, batch>>
       ELSE \E ok \in BOOLEAN :
              IF ok
              THEN /\ kv' = EngineWrite(kv, batch)
                   /\ batch' = << >>
                   /\ ret' = Ret("Commit", Len(batch), ErrNone, Nil)
              ELSE /\ ret' = Ret("Commit", Len(batch), ErrPut, Nil)
                   /\ kv' = EngineWrite(kv, IF batch = << >> THEN batch ELSE <<Head(batch)>>)
                   /\ UNCHANGED batch
    /\ UNCHANGED <<phase, storeVars, created, snapKv, released, engineCloses, leases, noopIssued>>

\* Batch.Commit: one atomic engine write of the whole sequence
Commit(p) ==
    /\ pc[p] = "Commit"
    /\ Unlock(p)
    /\ IF closed
       THEN /\ ret' = Ret("Commit", Len(batch), ErrClosed, Nil)
            /\ UNCHANGED <<kv, batch>>
       ELSE \E ok \in BOOLEAN :
              IF ok
              THEN /\ kv' = EngineWrite(kv, batch)
                   /\ batch' = << >>
                   /\ ret' = Ret("Commit", Len(batch), ErrNone, Nil)
              ELSE /\ ret' = Ret("Commit", Len(batch), ErrPut, Nil)
                   /\ UNCHANGED <<kv, batch>>
    /\ UNCHANGED <<phase, storeVars, created, snapKv, released, engineCloses, leases, noopIssued>>

\* ------------------------------------------------------------- history
\* the history grows by the operations a successful write committed
Logged(ops) == log' = IF ret'.err = ErrNone THEN log \o ops ELSE log

\* ------------------------------------------------------------- specifications
\* Snapshot lifecycle: every method of DB, called by concurrent callers; the data
\* methods run on one key, one value and one scan
LifeKeys == {<<1>>}
LifeValues == {1}
LifePrefixes == {<<1>>}
LifeLimits == {0}
LifeWriteOps == {"Close", "TakeSnapshot", "GetSnapshot", "Release", "Put", "Delete"}

Next ==
    \/ OpenDB
    \/ \E p \in Procs, o \in LifeWriteOps : Lock(p, o)
    \/ \E p \in Procs, o \in ReadOps : RLock(p, o)
    \/ \E p \in Procs : Close(p)
    \/ \E p \in Procs : IsClosed(p)
    \/ \E p \in Procs : TakeSnapshot(p)
    \/ \E p \in Procs : GetSnapshot(p)
    \/ \E p \in Procs, i \in 1..MaxLeases : Release(p, i)
    \/ \E p \in Procs : NoopRelease(p)
    \/ \E p \in Procs, k \in LifeKeys, v \in LifeValues : Put(p, k, v) /\ UNCHANGED log
    \/ \E p \in Procs, k \in LifeKeys : Get(p, k)
    \/ \E p \in Procs, k \in LifeKeys : Delete(p, k) /\ UNCHANGED log
    \/ \E p \in Procs, prefix \in LifePrefixes, limit \in LifeLimits : Scan(p, prefix, limit)

Spec == Init /\ [][Next]_vars

\* Data path of an open DB: Put, Delete, Batch and Commit against Get and Scan, with
\* the history kept
DataWriteOps == {"Put", "Delete", "Commit"}
DataReadOps == {"Get", "Scan"}

\* Lock, with MaxOps capping the writes committed or pending at the call that adds one
LockData(p, o) ==
    /\ Lock(p, o)
    /\ o \in {"Put", "Delete"} => Len(log) + Len(batch) < MaxOps
    /\ o = "Commit" => Len(log) + Len(batch) <= MaxOps

NextData ==
    \/ OpenDB
    \/ \E p \in Procs, o \in DataWriteOps : LockData(p, o)
    \/ \E p \in Procs, o \in DataReadOps : RLock(p, o)
    \/ \E p \in Procs, k \in Keys, v \in Values :
         Put(p, k, v) /\ Logged(<<BatchOp("put", k, v)>>)
    \/ \E p \in Procs, k \in Keys : Get(p, k)
    \/ \E p \in Procs, k \in Keys :
         Delete(p, k) /\ Logged(<<BatchOp("del", k, NoValue)>>)
    \/ \E p \in Procs, prefix \in LifePrefixes, limit \in LifeLimits : Scan(p, prefix, limit)
    \/ \E k \in Keys, v \in Values : BatchPut(k, v)
    \/ \E k \in Keys : BatchDelete(k)
    \/ \E p \in Procs : Commit(p) /\ Logged(batch)

SpecData == Init /\ [][NextData]_vars

\* ------------------------------------------------------------- properties
Handles == 1..created

\* the leases issued for snapshot s whose release closure was never called
Outstanding(s) == {i \in 1..Len(leases) : leases[i].bound = s /\ leases[i].relCalls = 0}
AnyOutstanding == \E i \in 1..Len(leases) : leases[i].relCalls = 0

\* this step is the body of method o, returning to its caller
Returns(o) == \E p \in Procs : pc[p] = o /\ pc'[p] = "idle"
ReturnsAny == \E p \in Procs : pc[p] # "idle" /\ pc'[p] = "idle"

\* the registry entry and the release count of every snapshot outside S stay as they are
OthersUntouched(S) ==
    /\ DOMAIN activeSnaps' \ S = DOMAIN activeSnaps \ S
    /\ \A x \in DOMAIN activeSnaps \ S : activeSnaps'[x] = activeSnaps[x]
    /\ \A x \in (1..MaxSnaps) \ S : released'[x] = released[x]

\* no Snap object is added and none changes its handle
LeasesUntouched ==
    /\ Len(leases') = Len(leases)
    /\ \A i \in 1..Len(leases) :
         /\ leases'[i].snap = leases[i].snap
         /\ leases'[i].bound = leases[i].bound

\* C1: whatever the interleaving of OpenDB, TakeSnapshot, GetSnapshot, release closures
\* and Close, Snapshot.Release() is invoked at most once on each engine snapshot.
C1_ReleasedAtMostOnce == \A s \in 1..MaxSnaps : released[s] <= 1

\* two snapshots were released, one of them through a lease whose closure ran more than
\* once, and the DB was closed
C1_Witness ==
    /\ closed
    /\ released[1] = 1 /\ released[2] = 1
    /\ \E i \in 1..Len(leases) : leases[i].bound = 1 /\ leases[i].relCalls = 2

\* C2: the snapshot of a lease that was issued and not yet released is in the registry
\* and was never engine-released, however many TakeSnapshot calls came since.
C2_LeasedSnapshotAlive ==
    \A i \in 1..Len(leases) :
        leases[i].relCalls = 0 =>
            /\ leases[i].bound \in DOMAIN activeSnaps
            /\ released[leases[i].bound] = 0

\* a lease on snapshot 1 is still held after two more TakeSnapshot calls
C2_Witness ==
    /\ snap = 3
    /\ Outstanding(1) # {}
    /\ released[2] = 1

\* C3: the first call of a lease's release closure decrements the count of the lease's
\* snapshot, or removes and engine-releases it when the count was 1, and changes nothing
\* else: not current, not closed, no other registry entry, no other release count.
C3_FirstReleaseFrame ==
    [][(Returns("Release") /\ leases[ret'.arg].relCalls = 0) =>
         LET s == leases[ret'.arg].bound
         IN /\ UNCHANGED <<snap, closed, db, created, snapKv, engineCloses, kv>>
            /\ OthersUntouched({s})
            /\ IF MapGet(activeSnaps, s) = 1
               THEN /\ s \notin DOMAIN activeSnaps'
                    /\ released'[s] = released[s] + 1
               ELSE /\ s \in DOMAIN activeSnaps'
                    /\ activeSnaps'[s] = MapGet(activeSnaps, s) - 1
                    /\ released'[s] = released[s]]_vars

\* a lease on the old snapshot 1 was released, which freed 1, while the current
\* snapshot 2 keeps its own lease
C3_Witness ==
    /\ ret.op = "Release"
    /\ leases[ret.arg].bound = 1 /\ leases[ret.arg].relCalls = 1
    /\ released[1] = 1
    /\ snap = 2
    /\ MapGet(activeSnaps, 2) = 2

\* C4: Close on an open DB fails with the active-snapshots error, changing nothing,
\* exactly when some issued lease is unreleased (on the current snapshot or an older
\* one); otherwise it closes the DB, and succeeds unless the engine's close fails.
C4_CloseIffNoLease ==
    [][(Returns("Close") /\ ~closed) =>
         IF AnyOutstanding
         THEN /\ ret'.err = ErrActive
              /\ UNCHANGED <<storeVars, engineVars, leases>>
         ELSE /\ ret'.err \in {ErrNone, ErrEngineClose}
              /\ ret'.err = ErrNone <=> db' = "nil"
              /\ closed']_vars

\* Close was refused while only a lease on the older snapshot 1 was held
C4_Witness ==
    /\ ret.op = "Close" /\ ret.err = ErrActive
    /\ ~closed
    /\ snap = 2
    /\ Outstanding(1) # {} /\ Outstanding(2) = {}

\* C5: a call of a release closure that was called before changes nothing of the DB,
\* the engine or the leases, also after TakeSnapshot or GetSnapshot calls in between.
C5_ReleaseIdempotent ==
    [][(Returns("Release") /\ leases[ret'.arg].relCalls > 0) =>
         /\ UNCHANGED <<storeVars, engineVars>>
         /\ LeasesUntouched]_vars

\* a closure was called again after the current snapshot had moved on and another
\* lease had been issued
C5_Witness ==
    /\ ret.op = "Release"
    /\ leases[ret.arg].relCalls = 2
    /\ leases[ret.arg].bound = 1
    /\ snap = 2
    /\ Outstanding(2) # {}

\* C6: after a successful Close the DB stays closed, no call changes the DB, the engine
\* or the leases; Put, Get, Delete, Scan, TakeSnapshot and Close return the closed
\* error, and GetSnapshot returns a nil lease.
ClosedOk == closed /\ db = "nil"

C6_ClosedRejectsAll ==
    [][ClosedOk =>
         /\ ClosedOk'
         /\ UNCHANGED <<storeVars, engineVars>>
         /\ LeasesUntouched
         /\ ReturnsAny =>
              /\ ret'.op \in {"Put", "Get", "Delete", "Scan", "TakeSnapshot", "Close"}
                   => ret'.err = ErrClosed
              /\ ret'.op = "GetSnapshot" => ret'.val = Nil /\ noopIssued'
              /\ ret'.op = "IsClosed" => ret'.val = TRUE]_vars

\* a second Close returned the closed error, after GetSnapshot had returned the nil
\* lease; the engine was closed once
C6_Witness ==
    /\ ClosedOk
    /\ noopIssued
    /\ ret.op = "Close" /\ ret.err = ErrClosed
    /\ engineCloses = 1

\* C7: a TakeSnapshot whose engine call fails returns the snapshot-creation error and
\* changes nothing: current, registry, release counts and the open state stay.
C7_FailedTakeSnapshotFrame ==
    [][(Returns("TakeSnapshot") /\ ret'.err = ErrSnapshot) =>
         /\ ~closed /\ ~closed'
         /\ snap' = snap /\ snap # Nil
         /\ released'[snap] = 0
         /\ UNCHANGED <<storeVars, engineVars, leases>>]_vars

\* TakeSnapshot failed on an open DB with a leased current snapshot
C7_Witness ==
    /\ ret.op = "TakeSnapshot" /\ ret.err = ErrSnapshot
    /\ ~closed
    /\ snap = 2
    /\ MapGet(activeSnaps, 2) = 2

\* C8: a successful TakeSnapshot makes current a handle never created before, with
\* count 1; the previous current loses one count: it is engine-released and removed
\* when no lease was outstanding on it, and stays with one count per outstanding lease
\* otherwise.
C8_TakeSnapshotEffect ==
    [][(Returns("TakeSnapshot") /\ ret'.err = ErrNone) =>
         /\ snap' \notin Handles /\ snap' \in 1..created'
         /\ activeSnaps'[snap'] = 1
         /\ OthersUntouched({snap, snap'}) /\ released'[snap'] = 0
         /\ IF Outstanding(snap) = {}
            THEN /\ snap \notin DOMAIN activeSnaps'
                 /\ released'[snap] = released[snap] + 1
            ELSE /\ activeSnaps'[snap] = activeSnaps[snap] - 1
                 /\ activeSnaps'[snap] = Cardinality(Outstanding(snap))
                 /\ released'[snap] = released[snap]]_vars

\* the third snapshot became current: the first was released, the second stays for
\* its lease
C8_Witness ==
    /\ ret.op = "TakeSnapshot" /\ ret.err = ErrNone
    /\ snap = 3
    /\ released[1] = 1
    /\ DOMAIN activeSnaps = {2, 3}
    /\ activeSnaps[2] = 1 /\ Cardinality(Outstanding(2)) = 1

\* C9: every snapshot in the registry has a count of at least 1 and was not
\* engine-released, and a snapshot leaves the registry in the very step that
\* engine-releases it.
RegistrySound ==
    \A s \in DOMAIN activeSnaps :
        /\ s # Nil
        /\ activeSnaps[s] >= 1
        /\ released[s] = 0

C9_RegistryPositive ==
    /\ []RegistrySound
    /\ [][\A s \in 1..MaxSnaps :
            (s \in DOMAIN activeSnaps /\ s \notin DOMAIN activeSnaps')
                <=> released'[s] = released[s] + 1]_vars

\* snapshot 1 was released and removed while snapshot 2 holds two counts
C9_Witness ==
    /\ released[1] = 1 /\ 1 \notin DOMAIN activeSnaps
    /\ MapGet(activeSnaps, 2) = 2

\* the value the history leaves for key k: that of the last put of k, unless a delete
\* of k follows it
RECURSIVE LastWrite(_, _)
LastWrite(l, k) ==
    IF l = << >> THEN NoValue
    ELSE LET last == l[Len(l)]
         IN IF last.k = k
            THEN IF last.t = "put" THEN last.v ELSE NoValue
            ELSE LastWrite(SubSeq(l, 1, Len(l) - 1), k)

\* C10: after any sequence of successful Put, Delete and Commit calls, Get(k) returns
\* the value of the last put of k that no delete of k follows, and not-found if there
\* is none.
C10_GetReflectsWrites ==
    /\ \A k \in Keys : kv[k] = LastWrite(log, k)
    /\ (ret.op = "Get" /\ ret.err = ErrNone) => ret.val = LastWrite(log, ret.arg)

\* Get found the second value put under a key that was put and deleted before
C10_Witness ==
    /\ ret.op = "Get" /\ ret.err = ErrNone
    /\ ret.val = 2
    /\ Len(log) = 3
    /\ log[1] = BatchOp("put", ret.arg, 1)
    /\ log[2] = BatchOp("del", ret.arg, NoValue)
    /\ log[3] = BatchOp("put", ret.arg, 2)

\* the pairs a sequence of Scan results holds, and the live pairs under a prefix
PairsOf(items) == {items[i] : i \in 1..Len(items)}
LivePairs(m, prefix) == {<<k, m[k]>> : k \in {x \in DOMAIN m : m[x] # NoValue /\ HasPrefix(x, prefix)}}

\* C11: Get and Scan return the live contents of the engine, not those of a snapshot:
\* a write made after the last TakeSnapshot shows in the next Get or Scan, and
\* TakeSnapshot, GetSnapshot and the release closures leave the live contents alone.
C11_ReadsAreLive ==
    [][/\ (Returns("Get") /\ ret'.err = ErrNone) => ret'.val = kv[ret'.arg]
       /\ (Returns("Scan") /\ ret'.err = ErrNone) =>
            /\ PairsOf(ret'.val) \subseteq LivePairs(kv, ret'.arg[1])
            /\ ret'.arg[2] <= 0 => PairsOf(ret'.val) = LivePairs(kv, ret'.arg[1])
       /\ (Returns("TakeSnapshot") \/ Returns("GetSnapshot") \/ Returns("Release"))
            => kv' = kv]_vars

\* Get found a value that was put after the current snapshot was taken, while a lease
\* on that snapshot is held
C11_Witness ==
    /\ ret.op = "Get" /\ ret.err = ErrNone
    /\ ret.val # NoValue
    /\ snap = 2
    /\ snapKv[snap][ret.arg] = NoValue
    /\ Outstanding(snap) # {}

\* ------------------------------------------------------------- Scan
\* Scan over four keys, with every prefix and limit, against Put and Delete
InitScan ==
    /\ phase = "new"
    /\ db = "nil"
    /\ closed = FALSE
    /\ snap = Nil
    /\ activeSnaps = EmptyMap
    /\ mutex = [w |-> FALSE, r |-> 0]
    /\ created = 0
    /\ snapKv = << >>
    /\ released = [s \in 1..MaxSnaps |-> 0]
    /\ engineCloses = 0
    /\ kv = [k \in ScanKeys |-> NoValue]
    /\ leases = << >>
    /\ noopIssued = FALSE
    /\ batch = << >>
    /\ pc = [p \in Procs |-> "idle"]
    /\ ret = NoRet
    /\ log = << >>

NextScan ==
    \/ OpenDB
    \/ \E p \in Procs, o \in {"Put", "Delete"} : Lock(p, o)
    \/ \E p \in Procs : RLock(p, "Scan")
    \/ \E p \in Procs, k \in ScanKeys, v \in Values : Put(p, k, v) /\ UNCHANGED log
    \/ \E p \in Procs, k \in ScanKeys : Delete(p, k) /\ UNCHANGED log
    \/ \E p \in Procs, prefix \in Prefixes, limit \in Limits : Scan(p, prefix, limit)

SpecScan == InitScan /\ [][NextScan]_vars

\* prefix is an initial part of key k
StartsWith(k, prefix) ==
    /\ Len(prefix) <= Len(k)
    /\ \A i \in 1..Len(prefix) : k[i] = prefix[i]

\* key a comes before key b in the order of their bytes
Before(a, b) ==
    \/ /\ Len(a) < Len(b)
       /\ \A i \in 1..Len(a) : a[i] = b[i]
    \/ \E i \in 1..Len(a) :
         /\ i <= Len(b)
         /\ a[i] < b[i]
         /\ \A j \in 1..(i - 1) : a[j] = b[j]

\* items is what Scan(prefix, limit) has to return over the contents m
ScanCorrect(m, prefix, limit, items) ==
    LET match == {k \in DOMAIN m : m[k] # NoValue /\ StartsWith(k, prefix)}
        n == Cardinality(match)
        want == IF limit > 0 /\ limit < n THEN limit ELSE n
        got == {items[i][1] : i \in 1..Len(items)}
    IN /\ Len(items) = want
       /\ got \subseteq match
       /\ \A i \in 1..Len(items) : items[i][2] = m[items[i][1]]
       /\ \A i, j \in 1..Len(items) : i < j => Before(items[i][1], items[j][1])
       /\ \A k \in match \ got : \A x \in got : Before(x, k)

\* C12: on an open DB a successful Scan(prefix, limit) returns, in ascending key order
\* and with their current values, the first min(limit, n) of the n live keys starting
\* with prefix when limit > 0, and all n when limit <= 0; no other key is returned.
C12_ScanResult ==
    (ret.op = "Scan" /\ ret.err = ErrNone) => ScanCorrect(kv, ret.arg[1], ret.arg[2], ret.val)

\* Scan(<<1>>, 2) returned two of the three live keys under the prefix, with a fourth
\* live key outside it
C12_Witness ==
    /\ ret.op = "Scan" /\ ret.err = ErrNone
    /\ ret.arg = <<(<<1>>), 2>>
    /\ \A k \in ScanKeys : kv[k] # NoValue
    /\ Len(ret.val) = 2
    /\ ret.val[1][1] = <<1>> /\ ret.val[2][1] = <<1, 1>>

\* the keys a sequence of batch operations writes
Touched(ops) == {ops[i].k : i \in 1..Len(ops)}

\* the contents after the whole sequence ops took effect on m
AllApplied(m, ops) == [k \in DOMAIN m |-> IF k \in Touched(ops) THEN LastWrite(ops, k) ELSE m[k]]

\* C13: the operations of a Batch show to no reader before Commit; a Commit applies all
\* of them in one step or none, with no Get or Scan inside its critical section in
\* between; Get and Scan return the contents left by the completed writes; a committed
\* batch [Put(a, 1), Delete(a)] leaves a absent.
C13_BatchAtomic ==
    /\ [](Committing => \A q \in Procs : pc[q] \notin ReadOps)
    /\ [][/\ batch' # batch /\ ~Returns("Commit") => kv' = kv
          /\ Returns("Commit") =>
               \/ ret'.err = ErrNone /\ kv' = AllApplied(kv, batch)
               \/ ret'.err # ErrNone /\ kv' = kv
          /\ (Returns("Get") /\ ret'.err = ErrNone) => ret'.val = LastWrite(log, ret'.arg)
          /\ (Returns("Scan") /\ ret'.err = ErrNone) =>
               PairsOf(ret'.val) =
                  {<<k, LastWrite(log, k)>> :
                      k \in {x \in Keys : LastWrite(log, x) # NoValue /\ StartsWith(x, ret'.arg[1])}}]_vars

\* a key held a value, then the batch [Put(a, 1), Delete(a)] was committed in one
\* write and left the key absent
C13_Witness ==
    /\ ret.op = "Commit" /\ ret.err = ErrNone /\ ret.arg = 2
    /\ Len(log) = 3
    /\ log[1].t = "put" /\ log[1].v = 2
    /\ log[2] = BatchOp("put", log[1].k, 1)
    /\ log[3] = BatchOp("del", log[1].k, NoValue)
    /\ kv[log[1].k] = NoValue

\* C14: while a caller is in the critical section of a writing method (Close, Put,
\* Delete, TakeSnapshot among them) no other caller is in any critical section, so the
\* closed flag and the engine handle do not change under a caller that stays in its
\* critical section, and a method that passed the closed check uses a live handle.
InCritical(p) == pc[p] # "idle"

C14_MutualExclusion ==
    /\ [](\A p, q \in Procs : (p # q /\ pc[p] \in WriteOps) => ~InCritical(q))
    /\ [](/\ mutex.w <=> \E p \in Procs : pc[p] \in WriteOps
          /\ mutex.r = Cardinality({p \in Procs : pc[p] \in ReadOps}))
    /\ [][/\ (\E p \in Procs : InCritical(p) /\ pc'[p] = pc[p])
               => (closed' = closed /\ db' = db)
          /\ (/\ ReturnsAny
              /\ ret'.op \in {"Put", "Get", "Delete", "Scan", "TakeSnapshot"}
              /\ ret'.err # ErrClosed)
               => (~closed /\ db = "handle")]_vars

\* Close is alone in its critical section on an open DB that holds data and a lease
C14_Witness ==
    /\ \E p \in Procs : pc[p] = "Close" /\ \A q \in Procs \ {p} : pc[q] = "idle"
    /\ mutex.w /\ mutex.r = 0
    /\ ~closed
    /\ AnyOutstanding
    /\ \E k \in Keys : kv[k] # NoValue

\* C15 as stated: GetSnapshot holds the mutex as a reader, like Get and Scan, so a
\* caller inside GetSnapshot never holds it as a writer.
C15_SharedLockOnly ==
    \A p \in Procs : pc[p] = "GetSnapshot" => (~mutex.w /\ mutex.r >= 1)

\* C15, amended: GetSnapshot holds the mutex as the one writer: while a caller is inside
\* it no other caller is inside any critical section, and while a reader (Get, Scan,
\* IsClosed) or a writer is inside one, GetSnapshot cannot enter.
C15_GetSnapshotExclusive ==
    /\ \A p \in Procs : pc[p] = "GetSnapshot" =>
         /\ mutex.w /\ mutex.r = 0
         /\ \A q \in Procs \ {p} : pc[q] = "idle"
    /\ (\E q \in Procs : InCritical(q)) =>
         \A p \in Procs : ~ENABLED Lock(p, "GetSnapshot")

\* a caller is inside GetSnapshot for a second lease, the other caller is outside
C15_Witness ==
    /\ \E p \in Procs : pc[p] = "GetSnapshot" /\ \A q \in Procs \ {p} : pc[q] = "idle"
    /\ mutex.w
    /\ ~closed
    /\ Len(leases) = 1

\* ------------------------------------------------------------- progress
\* Calls that wait for the mutex: a caller first stands in its method's Lock() or
\* RLock() call, then holds the mutex, then returns.
Waiting(o) ==
    CASE o = "Close" -> "wait Close"
      [] o = "TakeSnapshot" -> "wait TakeSnapshot"
      [] o = "GetSnapshot" -> "wait GetSnapshot"
      [] o = "Release" -> "wait Release"
      [] o = "Put" -> "wait Put"
      [] o = "Delete" -> "wait Delete"
      [] o = "IsClosed" -> "wait IsClosed"
      [] o = "Get" -> "wait Get"
      [] o = "Scan" -> "wait Scan"

LiveWriteOps == {"Close", "TakeSnapshot", "GetSnapshot", "Release"}
LiveReadOps == {"IsClosed", "Get"}
LiveSnaps == MaxSnaps - 1
LiveLeases == MaxLeases - 1

WriterWaiting == \E q \in Procs, o \in LiveWriteOps : pc[q] = Waiting(o)
Leasing == {q \in Procs : pc[q] \in {Waiting("GetSnapshot"), "GetSnapshot"}}
Snapping == {q \in Procs : pc[q] \in {Waiting("TakeSnapshot"), "TakeSnapshot"}}

\* a caller invokes method o and reaches its Lock() or RLock()
Call(p, o) ==
    /\ phase = "open"
    /\ pc[p] = "idle"
    /\ o = "Release" => Len(leases) > 0
    /\ o = "GetSnapshot" => closed \/ Len(leases) + Cardinality(Leasing) < LiveLeases
    /\ o = "TakeSnapshot" => closed \/ created + Cardinality(Snapping) < LiveSnaps
    /\ pc' = [pc EXCEPT ![p] = Waiting(o)]
    /\ ret' = NoRet
    /\ UNCHANGED <<phase, storeVars, mutex, engineVars, leases, noopIssued, batch, log>>

\* Lock() returns: no writer and no reader holds the mutex
AcquireLock(p) ==
    /\ \E o \in LiveWriteOps :
         /\ pc[p] = Waiting(o)
         /\ pc' = [pc EXCEPT ![p] = o]
    /\ ~mutex.w /\ mutex.r = 0
    /\ mutex' = [mutex EXCEPT !.w = TRUE]
    /\ ret' = NoRet
    /\ UNCHANGED <<phase, storeVars, engineVars, leases, noopIssued, batch, log>>

\* RLock() returns: no writer holds the mutex and none stands in Lock()
AcquireRLock(p) ==
    /\ \E o \in LiveReadOps :
         /\ pc[p] = Waiting(o)
         /\ pc' = [pc EXCEPT ![p] = o]
    /\ ~mutex.w
    /\ ~WriterWaiting
    /\ mutex' = [mutex EXCEPT !.r = @ + 1]
    /\ ret' = NoRet
    /\ UNCHANGED <<phase, storeVars, engineVars, leases, noopIssued, batch, log>>

\* the body of the method caller p is in, to its return
Body(p) ==
    \/ Close(p)
    \/ IsClosed(p)
    \/ TakeSnapshot(p)
    \/ GetSnapshot(p)
    \/ \E i \in 1..MaxLeases : Release(p, i)
    \/ \E k \in LifeKeys : Get(p, k)

NextLive ==
    \/ OpenDB
    \/ \E p \in Procs, o \in LiveWriteOps \cup LiveReadOps : Call(p, o)
    \/ \E p \in Procs : AcquireLock(p)
    \/ \E p \in Procs : AcquireRLock(p)
    \/ \E p \in Procs : Body(p)
    \/ \E p \in Procs : NoopRelease(p)

\* the mutex hands itself to every caller that keeps waiting for it, and every engine
\* call returns
FairLive ==
    \A p \in Procs :
        /\ SF_vars(AcquireLock(p))
        /\ SF_vars(AcquireRLock(p))
        /\ WF_vars(Body(p))

SpecLive == Init /\ [][NextLive]_vars /\ FairLive

\* C16: every call of a method or of a release closure returns; Close refuses at once,
\* inside its one critical section, when leases are outstanding, whether or not they
\* are ever released; an open DB always has a step to take.
C16_EveryCallReturns ==
    /\ \A p \in Procs : (pc[p] # "idle") ~> (pc[p] = "idle")
    /\ [](phase = "open" => ENABLED NextLive)
    /\ [][(Returns("Close") /\ ~closed /\ AnyOutstanding) => ret'.err = ErrActive]_vars

\* Close refused and returned while a lease is held and the other caller waits
C16_Witness ==
    /\ ret.op = "Close" /\ ret.err = ErrActive
    /\ AnyOutstanding
    /\ \E p \in Procs : pc[p] = "idle"
    /\ \E q \in Procs : pc[q] = Waiting("TakeSnapshot")

\* ------------------------------------------------------------- releaseSnapInternal alone
\* releaseSnapInternal applied once to a handle, over every registry with counts 1..2
\* and every engine release record in which the registered snapshots are unreleased.
RegistryInputs ==
    UNION {[S -> 1..2] : S \in SUBSET (1..MaxSnaps)}

InitRelease ==
    /\ phase = "open"
    /\ db = "handle"
    /\ closed = FALSE
    /\ snap = Nil
    /\ activeSnaps \in RegistryInputs
    /\ mutex = [w |-> FALSE, r |-> 0]
    /\ created = MaxSnaps
    /\ snapKv = [s \in 1..MaxSnaps |-> [k \in Keys |-> NoValue]]
    /\ released \in {rel \in [1..MaxSnaps -> 0..1] :
                       \A s \in DOMAIN activeSnaps : rel[s] = 0}
    /\ engineCloses = 0
    /\ kv = [k \in Keys |-> NoValue]
    /\ leases = << >>
    /\ noopIssued = FALSE
    /\ batch = << >>
    /\ pc = [p \in Procs |-> "idle"]
    /\ ret = NoRet
    /\ log = << >>

\* d.releaseSnapInternal(s); ret keeps the registry and release record it was given
ReleaseCall(s) ==
    /\ ret = NoRet
    /\ LET r == releaseSnapInternal(activeSnaps, released, s)
       IN /\ activeSnaps' = r.active
          /\ released' = r.released
    /\ ret' = Ret("releaseSnapInternal", s, ErrNone,
                  [active |-> activeSnaps, released |-> released])
    /\ UNCHANGED <<phase, db, closed, snap, mutex, created, snapKv, engineCloses, kv,
                   leases, noopIssued, batch, pc, log>>

NextRelease == \E s \in 0..MaxSnaps : ReleaseCall(s)

SpecRelease == InitRelease /\ [][NextRelease]_vars

References(s) == Cardinality(Outstanding(s)) + (IF s = snap THEN 1 ELSE 0)

\* C18: while the DB is open, the registry count of every snapshot is the number of its
\* issued, unreleased leases plus one if it is the current snapshot; the registry's keys
\* are the snapshots with a positive such number; the current snapshot is not nil and is
\* a key of the registry.
C18_RegistryCounts ==
    (phase = "open" /\ ~closed) =>
        /\ \A s \in 1..MaxSnaps : MapGet(activeSnaps, s) = References(s)
        /\ DOMAIN activeSnaps = {s \in 1..MaxSnaps : References(s) > 0}
        /\ snap # Nil
        /\ snap \in DOMAIN activeSnaps

\* an open DB holding a lease on an old snapshot and a lease on the current one
C18_Witness ==
    /\ phase = "open" /\ ~closed
    /\ snap = 2
    /\ MapGet(activeSnaps, 1) = 1 /\ Cardinality(Outstanding(1)) = 1
    /\ MapGet(activeSnaps, 2) = 2 /\ Cardinality(Outstanding(2)) = 1

\* C19: once Close has passed its lease check (the DB is closed), the registry is empty,
\* the current snapshot is nil, and every snapshot the engine created, at OpenDB or in a
\* TakeSnapshot, has been released by the engine.
C19_NoLeaks ==
    closed =>
        /\ activeSnaps = EmptyMap
        /\ snap = Nil
        /\ \A s \in 1..created : released[s] >= 1

\* a DB closed after several snapshots were taken and leases were issued and returned
C19_Witness ==
    /\ closed
    /\ created = MaxSnaps
    /\ Len(leases) = MaxLeases
    /\ \A s \in 1..created : released[s] = 1
    /\ activeSnaps = EmptyMap

\* the DB after a Close whose engine close failed: closed, engine handle kept
EngineCloseFailed == closed /\ db = "handle"

\* C20: a Close whose engine close fails returns the error with the DB closed, its
\* current snapshot released and d.snap nil; from then on the DB stays so, every method
\* answers as on a closed DB, and a later Close says closed without calling the engine's
\* close again.
C20_EngineCloseFailure ==
    [][/\ (Returns("Close") /\ ret'.err = ErrEngineClose) =>
            /\ ~closed /\ closed'
            /\ snap # Nil /\ snap' = Nil
            /\ released'[snap] = released[snap] + 1
            /\ activeSnaps' = EmptyMap
            /\ db' = "handle"
            /\ engineCloses' = engineCloses + 1
       /\ EngineCloseFailed =>
            /\ EngineCloseFailed'
            /\ UNCHANGED <<snap, activeSnaps, created, released, engineCloses, kv>>
            /\ (Returns("Close") \/ Returns("TakeSnapshot") \/ Returns("Put")
                  \/ Returns("Get") \/ Returns("Delete") \/ Returns("Scan"))
                 => ret'.err = ErrClosed
            /\ Returns("IsClosed") => ret'.val = TRUE
            /\ Returns("GetSnapshot") => (ret'.val = Nil /\ UNCHANGED leases)
      ]_vars

\* a second Close after the failed one: it said closed and the engine's close was
\* called once
C20_Witness ==
    /\ EngineCloseFailed
    /\ ret.op = "Close" /\ ret.err = ErrClosed
    /\ engineCloses = 1

====
